---- MODULE Spec2Model ----
(***************************************************************************)
(* A model of src/src/main.cpp: the AutoDiary HTTP-server firmware.        *)
(*                                                                         *)
(* Three execution contexts are modelled, as the firmware creates them:    *)
(*   - the main context: setup(), then loop() calling server.handleClient  *)
(*     which runs one request handler to completion (variable pc);         *)
(*   - the video task videoCaptureTask (variable vpc);                     *)
(*   - the audio task audioCaptureTask (variable apc).                     *)
(* The hardware frame producer (esp_camera), the sampler (I2S), the        *)
(* flash store (SPIFFS) and the web server library are collaborators; they *)
(* are modelled at their interface, with every outcome the code tests for  *)
(* (and every return value it ignores) drawn nondeterministically.         *)
(* The model covers one process lifetime starting from an empty store:     *)
(* ESP.restart() ends it.                                                  *)
(***************************************************************************)
EXTENDS Integers, Sequences, FiniteSets, TLC

\* ------------------------------------------------------------------ bounds

\* Events of one explored behaviour: requests dispatched, fill cycles that find
\* data and snapshots of the audio buffer, in every order and interleaving.
MaxEvents == 3
\* Longest encoded frame, in bytes.
MaxFrameLen == 1
\* AUDIO_BUFFER_SIZE of main.cpp:49 is 512; the model scales it down and keeps
\* every size derived from it as the code derives it.
AUDIO_BUFFER_SIZE == 1

\* ------------------------------------------------------- program constants

\* sizeof(short) on the target: audio_buffer is an array of short
SIZEOF_SHORT == 2
\* setupWiFi gives up after this many one-second waits
WIFI_MAX_ATTEMPTS == 30
\* config.fb_count: the size of the producer's frame-buffer pool
FB_COUNT == 1
\* frame_count and audio_bytes_captured are unsigned long (32 bits on the target);
\* the bounds above keep both far below 2^32, so no increment of an explored
\* behaviour wraps and the counters are modelled as naturals.

\* Bytes of an encoded frame.
Byte == {0, 1}

\* ------------------------------------------------------------------- state

VARIABLES
    \* --- globals of main.cpp
    camera_initialized, wifi_connected, i2s_initialized,
    frame_count, audio_bytes_captured, audio_data_ready,
    audio_buffer,      \* byte offset -> the fill cycle that wrote the byte (0: never written)
    config,            \* camera_config_t: the fields the driver and the recovery read
    server,            \* the WebServer: its routes in registration order, its fallback
    \* --- the collaborators' state
    hw_inited,         \* the camera driver is initialized
    hw_framesize,      \* the sensor's current frame size
    fb_outstanding,    \* frame handles obtained from the driver and not yet returned
    spiffs_mounted,
    photo,             \* the store's /photo.jpg: [exists, data]
    \* --- the main context
    pc,                \* its position
    attempts,          \* setupWiFi's local (0 outside its loop)
    fb,                \* the running function's local frame handle (fb, test_fb)
    fc_tmp,            \* the value frame_count++ read, before it is written back
    req,               \* the request being served (the last one, between requests)
    handler,           \* the handler the dispatcher chose for req
    resp,              \* the responses sent for req, in order
    \* --- the video task
    vpc,
    \* --- the audio task
    apc, bytes_available, bytes_to_read, bytes_read, wr_off, abc_tmp,
    \* --- a concurrent reader of the audio buffer
    rpc, rd_off, snap,
    \* --- history (never read by the program)
    ops,               \* producer calls made for req (in setup(): by setup), with results
    nreq,              \* requests dispatched so far
    fc_at_start,       \* frame_count when req was dispatched
    photo_at_start,    \* the store's /photo.jpg when req was dispatched
    prev,              \* <<handler, response>> of the request served before req, when
                       \* that was a /status or a /saved_photo; else <<>>
    video_ok,          \* /video.jpg requests answered 200 so far
    captured,          \* <<bytes>> of the frame of the last /capture answered 200
    nfills,            \* fill cycles that found data so far
    fills_sum,         \* sum of bytes_read over all fill cycles
    stable,            \* contents audio_buffer had whenever no fill cycle was partly written
    nsnaps             \* snapshots started so far

status == <<camera_initialized, wifi_connected, i2s_initialized, frame_count>>
cam == <<hw_inited, hw_framesize, fb_outstanding>>
store == <<spiffs_mounted, photo>>
setupst == <<config, server, attempts>>
reqst == <<req, handler, nreq, fc_at_start, photo_at_start, prev>>
audioloc == <<apc, bytes_available, bytes_to_read, bytes_read, wr_off, abc_tmp>>
audiost == <<audio_bytes_captured, audio_data_ready, audio_buffer, nfills, fills_sum, stable>>
readerst == <<rpc, rd_off, snap, nsnaps>>
tasks == <<vpc, audioloc, audiost, readerst>>
\* Requests dispatched, fill cycles that found data and snapshots taken so far.
Events == nreq + nfills + nsnaps

vars == <<status, cam, store, setupst, reqst, pc, fb, fc_tmp, resp, ops,
          video_ok, captured, tasks>>

\* ------------------------------------------------------------ collaborators

\* A NULL camera_fb_t pointer.
NoFrame == [buf |-> <<>>, res |-> "none"]

FrameBufs == UNION {[1..n -> Byte] : n \in 1..MaxFrameLen}

\* esp_camera_init(&config): ESP_OK or an error code.
InitResults == {"ESP_OK", "ESP_FAIL"}

\* esp_camera_fb_get(): NULL, or a frame at the sensor's current frame size when
\* the driver is initialized and its pool has a free buffer.
esp_camera_fb_get ==
    {NoFrame} \cup
    (IF hw_inited /\ fb_outstanding < config.fb_count
     THEN {[buf |-> b, res |-> hw_framesize] : b \in FrameBufs}
     ELSE {})

\* esp_camera_sensor_get(): the sensor of an initialized driver, else NULL.
esp_camera_sensor_get == IF hw_inited THEN "sensor" ELSE "NULL"

\* A response as server.send / send_P / streamFile emits it.
Response(code, ctype, text, data, json, hdr) ==
    [code |-> code, ctype |-> ctype, text |-> text, data |-> data, json |-> json,
     hdr |-> hdr]

Text(code, ctype, text) == Response(code, ctype, text, <<>>, <<>>, {})

\* ----------------------------------------------------------------- requests

Methods == {"GET", "POST"}
RegisteredPaths == {"/", "/video.jpg", "/capture", "/save", "/saved_photo",
                    "/audio", "/status", "/restart"}
Paths == RegisteredPaths \cup {"/favicon.ico"}
Queries == {"", "t=1"}
Requests == [method : Methods, path : Paths, query : Queries]
NoRequest == [method |-> "", path |-> "", query |-> ""]

Route(uri, method, fn) == [uri |-> uri, method |-> method, fn |-> fn]

\* A variant of RegisteredRoutes with a copy-and-paste slip: /saved_photo is
\* registered with the handler of /save.
RegisteredRoutes_CopyPaste ==
    << Route("/", "GET", "handleRoot"),
       Route("/video.jpg", "GET", "handleVideoJpeg"),
       Route("/capture", "GET", "handleCapture"),
       Route("/save", "GET", "handleSave"),
       Route("/saved_photo", "GET", "handleSave"),
       Route("/audio", "GET", "onAudioCapture"),
       Route("/status", "GET", "handleStatus"),
       Route("/restart", "GET", "handleRestart") >>

\* The routes setupWebServer registers, in its order.
RegisteredRoutes ==
    << Route("/", "GET", "handleRoot"),
       Route("/video.jpg", "GET", "handleVideoJpeg"),
       Route("/capture", "GET", "handleCapture"),
       Route("/save", "GET", "handleSave"),
       Route("/saved_photo", "GET", "handleSavedPhoto"),
       Route("/audio", "GET", "onAudioCapture"),
       Route("/status", "GET", "handleStatus"),
       Route("/restart", "GET", "handleRestart") >>

\* server.handleClient's choice: the first registered route whose uri is the
\* request's path (the query string is not part of it) and whose method is the
\* request's; the fallback when there is none.
Dispatch(r) ==
    LET hits == {i \in 1..Len(server.handlers) :
                    /\ server.handlers[i].uri = r.path
                    /\ server.handlers[i].method = r.method}
    IN IF hits = {} THEN server.notFound
       ELSE server.handlers[CHOOSE i \in hits : \A j \in hits : i <= j].fn


\* --------------------------------------------------------------------- Init

\* sizeof(audio_buffer): short audio_buffer[AUDIO_BUFFER_SIZE * 2]
AudioCapacityBytes == AUDIO_BUFFER_SIZE * 2 * SIZEOF_SHORT

Init ==
    /\ camera_initialized = FALSE /\ wifi_connected = FALSE /\ i2s_initialized = FALSE
    /\ frame_count = 0 /\ audio_bytes_captured = 0 /\ audio_data_ready = FALSE
    /\ audio_buffer = [i \in 0..(AudioCapacityBytes - 1) |-> 0]
    /\ config = [frame_size |-> "FRAMESIZE_96X96", fb_count |-> 0]
    /\ server = [handlers |-> <<>>, notFound |-> "none", begun |-> FALSE]
    /\ hw_inited = FALSE /\ hw_framesize = "none" /\ fb_outstanding = 0
    /\ spiffs_mounted = FALSE /\ photo = [exists |-> FALSE, data |-> <<>>]
    /\ pc = "setup" /\ attempts = 0 /\ fb = NoFrame /\ fc_tmp = 0
    /\ req = NoRequest /\ handler = "none" /\ resp = <<>>
    /\ vpc = "none"
    /\ apc = "none" /\ bytes_available = 0 /\ bytes_to_read = 0 /\ bytes_read = 0
    /\ wr_off = 0 /\ abc_tmp = 0
    /\ rpc = "idle" /\ rd_off = 0 /\ snap = <<>>
    /\ ops = <<>> /\ nreq = 0 /\ fc_at_start = 0 /\ video_ok = 0 /\ captured = <<>>
    /\ photo_at_start = photo /\ prev = <<>>
    /\ nfills = 0 /\ fills_sum = 0 /\ stable = {audio_buffer} /\ nsnaps = 0

\* -------------------------------------------------------------------- setup

\* setup(): SPIFFS.begin(true); a failure is logged and setup goes on.
SetupSpiffs ==
    /\ pc = "setup"
    /\ \E ok \in BOOLEAN : spiffs_mounted' = ok
    /\ pc' = "setupWiFi"
    /\ UNCHANGED <<status, cam, photo, setupst, reqst, fb, fc_tmp, resp, ops,
                   video_ok, captured, tasks>>

\* setupWiFi: while (WiFi.status() != WL_CONNECTED && attempts < 30) attempts++
SetupWiFiWait ==
    /\ pc = "setupWiFi"
    /\ \E connected \in BOOLEAN :
        IF ~connected /\ attempts < WIFI_MAX_ATTEMPTS
        THEN attempts' = attempts + 1 /\ pc' = pc
        ELSE attempts' = 0 /\ pc' = "setupWiFi_check"
    /\ UNCHANGED <<status, cam, store, config, server, reqst, fb, fc_tmp, resp,
                   ops, video_ok, captured, tasks>>

\* setupWiFi: if (WiFi.status() == WL_CONNECTED) wifi_connected = true
SetupWiFiCheck ==
    /\ pc = "setupWiFi_check"
    /\ \E connected \in BOOLEAN :
        wifi_connected' = IF connected THEN TRUE ELSE wifi_connected
    /\ pc' = "setupCamera"
    /\ UNCHANGED <<camera_initialized, i2s_initialized, frame_count, cam, store,
                   setupst, reqst, fb, fc_tmp, resp, ops, video_ok, captured,
                   tasks>>

\* setupCamera: the assignments to config
SetupCameraConfig ==
    /\ pc = "setupCamera"
    /\ config' = [frame_size |-> "FRAMESIZE_UXGA", fb_count |-> FB_COUNT]
    /\ pc' = "setupCamera_init"
    /\ UNCHANGED <<status, cam, store, server, attempts, reqst, fb, fc_tmp, resp,
                   ops, video_ok, captured, tasks>>

\* The driver's side of esp_camera_init(&config) returning e.
DriverInit(e) ==
    IF e = "ESP_OK"
    THEN hw_inited' = TRUE /\ hw_framesize' = config.frame_size
    ELSE UNCHANGED <<hw_inited, hw_framesize>>

\* The driver's side of esp_camera_deinit().
DriverDeinit ==
    /\ hw_inited' = FALSE
    /\ hw_framesize' = IF hw_inited THEN "none" ELSE hw_framesize

\* s = esp_camera_sensor_get(); if (s) s->set_framesize(s, FRAMESIZE_VGA)
\* The driver's contract is taken as given: an initialized driver has a sensor,
\* and set_framesize on it takes effect (a sensor that stops answering on its
\* control bus right after a successful initialization is outside the model).
ForceLowerResolution ==
    IF esp_camera_sensor_get # "NULL"
    THEN hw_framesize' = "FRAMESIZE_VGA" /\ ops' = Append(ops, "set_framesize")
    ELSE UNCHANGED <<hw_framesize, ops>>

\* setupCamera: err = esp_camera_init(&config); if (err == ESP_OK) camera_initialized = true
SetupCameraInit ==
    /\ pc = "setupCamera_init"
    /\ \E e \in InitResults :
        /\ DriverInit(e)
        /\ camera_initialized' = IF e = "ESP_OK" THEN TRUE ELSE camera_initialized
        /\ pc' = IF e = "ESP_OK" THEN "setupCamera_sensor" ELSE "setupI2S"
        /\ ops' = Append(ops, IF e = "ESP_OK" THEN "init_ok" ELSE "init_fail")
    /\ UNCHANGED <<wifi_connected, i2s_initialized, frame_count, fb_outstanding, store,
                   setupst, reqst, fb, fc_tmp, resp, video_ok, captured, tasks>>

\* A variant of setupCamera that leaves the resolution as configured.
SetupCameraSensor_Skipped ==
    /\ pc = "setupCamera_sensor"
    /\ pc' = "setupCamera_test"
    /\ UNCHANGED <<status, cam, store, setupst, reqst, fb, fc_tmp, resp, ops, video_ok,
                   captured, tasks>>

\* setupCamera: the resolution is lowered to VGA
SetupCameraSensor ==
    /\ pc = "setupCamera_sensor"
    /\ ForceLowerResolution
    /\ pc' = "setupCamera_test"
    /\ UNCHANGED <<status, hw_inited, fb_outstanding, store, setupst, reqst, fb, fc_tmp,
                   resp, video_ok, captured, tasks>>

\* setupCamera: test_fb = esp_camera_fb_get()
SetupCameraTestGet ==
    /\ pc = "setupCamera_test"
    /\ \E f \in esp_camera_fb_get :
        /\ fb' = f
        /\ fb_outstanding' = IF f # NoFrame THEN fb_outstanding + 1 ELSE fb_outstanding
        /\ pc' = IF f # NoFrame THEN "setupCamera_return" ELSE "setupI2S"
        /\ ops' = Append(ops, IF f # NoFrame THEN "get_ok" ELSE "get_null")
    /\ UNCHANGED <<status, hw_inited, hw_framesize, store, setupst, reqst, fc_tmp,
                   resp, video_ok, captured, tasks>>

\* setupCamera: esp_camera_fb_return(test_fb)
SetupCameraTestReturn ==
    /\ pc = "setupCamera_return"
    /\ fb_outstanding' = fb_outstanding - 1
    /\ fb' = NoFrame
    /\ ops' = Append(ops, "return")
    /\ pc' = "setupI2S"
    /\ UNCHANGED <<status, hw_inited, hw_framesize, store, setupst, reqst, fc_tmp,
                   resp, video_ok, captured, tasks>>

\* setupI2S: if (!I2S.begin(...)) return; i2s_initialized = true
SetupI2S ==
    /\ pc = "setupI2S"
    /\ \E ok \in BOOLEAN : i2s_initialized' = IF ok THEN TRUE ELSE i2s_initialized
    /\ pc' = "setupWebServer"
    /\ UNCHANGED <<camera_initialized, wifi_connected, frame_count, cam, store, setupst,
                   reqst, fb, fc_tmp, resp, ops, video_ok, captured, tasks>>

\* setupWebServer: the eight server.on calls, server.onNotFound, server.begin
SetupWebServer ==
    /\ pc = "setupWebServer"
    /\ server' = [handlers |-> RegisteredRoutes, notFound |-> "handleNotFound",
                  begun |-> TRUE]
    /\ pc' = "create_video"
    /\ UNCHANGED <<status, cam, store, config, attempts, reqst, fb, fc_tmp, resp,
                   ops, video_ok, captured, tasks>>

\* setup(): xTaskCreatePinnedToCore(videoCaptureTask, ...). A task that could
\* not be created is only logged; it behaves as a task that is never scheduled,
\* which every specification without fairness already allows.
CreateVideoTask ==
    /\ pc = "create_video"
    /\ vpc' = "delay"
    /\ pc' = "create_audio"
    /\ UNCHANGED <<status, cam, store, setupst, reqst, fb, fc_tmp, resp, ops,
                   video_ok, captured, audioloc, audiost, readerst>>

\* setup(): xTaskCreatePinnedToCore(audioCaptureTask, ...), as for the video task;
\* setup() returns and loop() starts
CreateAudioTask ==
    /\ pc = "create_audio"
    /\ apc' = "start"
    /\ pc' = "loop"
    /\ ops' = <<>>
    /\ UNCHANGED <<status, cam, store, setupst, reqst, fb, fc_tmp, resp,
                   video_ok, captured, vpc, bytes_available, bytes_to_read, bytes_read,
                   wr_off, abc_tmp, audiost, readerst>>

Setup ==
    \/ SetupSpiffs \/ SetupWiFiWait \/ SetupWiFiCheck
    \/ SetupCameraConfig \/ SetupCameraInit \/ SetupCameraSensor
    \/ SetupCameraTestGet \/ SetupCameraTestReturn
    \/ SetupI2S \/ SetupWebServer \/ CreateVideoTask \/ CreateAudioTask


\* ----------------------------------------------------------------- dispatch

\* loop(): server.handleClient() with a request pending: the dispatcher calls
\* the handler it maps the request to.
HandleClient ==
    /\ pc = "loop"
    /\ Events < MaxEvents
    /\ \E r \in Requests :
        /\ req' = r
        /\ handler' = Dispatch(r)
        /\ pc' = Dispatch(r)
    /\ nreq' = nreq + 1
    /\ fc_at_start' = frame_count
    /\ photo_at_start' = photo
    /\ prev' = prev
    /\ resp' = <<>>
    /\ ops' = <<>>
    /\ UNCHANGED <<status, cam, store, setupst, fb, fc_tmp, video_ok, captured,
                   tasks>>

\* The handler returns to handleClient and loop() ends its iteration with
\* delay(10): the request and the handler's locals are gone.
Return ==
    /\ pc = "done"
    /\ pc' = "loop"
    /\ req' = NoRequest /\ handler' = "none" /\ resp' = <<>> /\ ops' = <<>>
    /\ fc_at_start' = frame_count
    /\ photo_at_start' = photo
    /\ prev' = IF handler \in {"handleStatus", "handleSavedPhoto"}
               THEN <<handler, resp>> ELSE <<>>
    /\ UNCHANGED <<status, cam, store, setupst, nreq, fb, fc_tmp, video_ok, captured,
                   tasks>>

\* A handler that only sends the response r and returns.
SendOnly(name, r) ==
    /\ pc = name
    /\ resp' = Append(resp, r)
    /\ pc' = "done"
    /\ UNCHANGED <<status, cam, store, setupst, reqst, fb, fc_tmp, ops, video_ok,
                   captured, tasks>>

handleRoot == SendOnly("handleRoot", Text(200, "text/html; charset=utf-8", "html_page"))

handleSave ==
    SendOnly("handleSave", Text(200, "text/plain; charset=utf-8", "photo saved to SD card"))

onAudioCapture ==
    SendOnly("onAudioCapture",
             Response(200, "text/plain", "Audio stream endpoint", <<>>, <<>>,
                      {<<"Content-Type", "audio/wav">>}))

\* What WiFi.localIP() and WiFi.RSSI() return at the time of the call: the
\* station's address and signal strength while the link is up, no address and
\* 0 while it is down (the link can drop and come back at any time).
LinkReadings ==
    { [ip_address |-> "192.168.1.2", signal_strength |-> -60],
      [ip_address |-> "0.0.0.0", signal_strength |-> 0] }

\* handleStatus: the JSON document of the globals and of the link's readings
handleStatus ==
    \E link \in LinkReadings :
        SendOnly("handleStatus",
                 Response(200, "application/json", "", <<>>,
                          <<[device |-> "XIAO-ESP32S3-Sense",
                             firmware_version |-> "v2.0",
                             wifi_connected |-> wifi_connected,
                             ip_address |-> link.ip_address,
                             camera_initialized |-> camera_initialized,
                             i2s_initialized |-> i2s_initialized,
                             frame_count |-> frame_count,
                             signal_strength |-> link.signal_strength]>>,
                          {<<"Content-Type", "application/json; charset=utf-8">>}))

handleNotFound ==
    SendOnly("handleNotFound", Text(404, "text/plain; charset=utf-8", "404 - page not found"))

\* What handleSavedPhoto answers when the store's /photo.jpg is p: the file
\* opens for reading when the store is mounted and the file exists.
SavedPhotoReply(p) ==
    IF spiffs_mounted /\ p.exists
    THEN Response(200, "image/jpeg", "", p.data, <<>>,
                  {<<"Content-Type", "image/jpeg">>,
                   <<"Content-Length", Len(p.data)>>})
    ELSE Text(404, "text/plain", "Photo not found")

\* A variant of handleSavedPhoto that removes the file once it is served.
handleSavedPhoto_Consume ==
    /\ pc = "handleSavedPhoto"
    /\ resp' = Append(resp, SavedPhotoReply(photo))
    /\ photo' = [exists |-> FALSE, data |-> <<>>]
    /\ pc' = "done"
    /\ UNCHANGED <<status, cam, spiffs_mounted, setupst, reqst, fb, fc_tmp, ops,
                   video_ok, captured, tasks>>

\* handleSavedPhoto: file = SPIFFS.open("/photo.jpg", "r"); stream it, or 404
handleSavedPhoto == SendOnly("handleSavedPhoto", SavedPhotoReply(photo))

\* handleRestart: server.send(200, ...), then delay(1000)
handleRestart ==
    /\ pc = "handleRestart"
    /\ resp' = Append(resp, Text(200, "text/plain; charset=utf-8", "restarting"))
    /\ pc' = "handleRestart_restart"
    /\ UNCHANGED <<status, cam, store, setupst, reqst, fb, fc_tmp, ops, video_ok,
                   captured, tasks>>

\* handleRestart: ESP.restart() does not return; the process ends
EspRestart ==
    /\ pc = "handleRestart_restart"
    /\ pc' = "restarted"
    /\ UNCHANGED <<status, cam, store, setupst, reqst, fb, fc_tmp, resp, ops,
                   video_ok, captured, tasks>>

\* ------------------------------------------------------------ handleVideoJpeg

NotInitialized == Text(503, "text/plain", "Camera not initialized")
CaptureFailed == Text(503, "text/plain", "Camera capture failed")

\* The 200 response carrying the frame f; the first path also sends Cache-Control.
FrameResponse(f, first) ==
    Response(200, "image/jpeg", "", f.buf, <<>>,
             {<<"Content-Type", "image/jpeg">>, <<"Content-Length", Len(f.buf)>>}
             \cup (IF first THEN {<<"Cache-Control", "no-cache">>} ELSE {}))

\* if (!camera_initialized) { server.send(503, ...); return; }
VJ_Entry ==
    /\ pc = "handleVideoJpeg"
    /\ IF ~camera_initialized
       THEN resp' = Append(resp, NotInitialized) /\ pc' = "done"
       ELSE resp' = resp /\ pc' = "vj_get"
    /\ UNCHANGED <<status, cam, store, setupst, reqst, fb, fc_tmp, ops, video_ok,
                   captured, tasks>>

\* fb = esp_camera_fb_get(), at position `at`; then to `ok` with a frame, to `ko` without.
AcquireFrame(at, ok, ko) ==
    /\ pc = at
    /\ \E f \in esp_camera_fb_get :
        /\ fb' = f
        /\ fb_outstanding' = IF f # NoFrame THEN fb_outstanding + 1 ELSE fb_outstanding
        /\ pc' = IF f # NoFrame THEN ok ELSE ko
        /\ ops' = Append(ops, IF f # NoFrame THEN "get_ok" ELSE "get_null")
    /\ UNCHANGED <<status, hw_inited, hw_framesize, store, setupst, reqst, fc_tmp,
                   resp, video_ok, captured, tasks>>

\* esp_camera_fb_return(fb), at position `at`; then to `to`.
ReturnFrame(at, to) ==
    /\ pc = at
    /\ fb_outstanding' = fb_outstanding - 1
    /\ fb' = NoFrame
    /\ ops' = Append(ops, "return")
    /\ pc' = to
    /\ UNCHANGED <<status, hw_inited, hw_framesize, store, setupst, reqst, fc_tmp,
                   resp, video_ok, captured, tasks>>

\* camera_fb_t * fb = esp_camera_fb_get(); if (fb) ... else ...
VJ_Get == AcquireFrame("vj_get", "vj_send", "vj_deinit")

\* server.send_P(200, "image/jpeg", fb->buf, fb->len), at position `at`.
SendFrame(at, to, first) ==
    /\ pc = at
    /\ resp' = Append(resp, FrameResponse(fb, first))
    /\ video_ok' = video_ok + 1
    /\ pc' = to
    /\ UNCHANGED <<status, cam, store, setupst, reqst, fb, fc_tmp, ops, captured,
                   tasks>>

VJ_Send == SendFrame("vj_send", "vj_return", TRUE)

VJ_Return == ReturnFrame("vj_return", "vj_inc")

\* frame_count++: the read
IncRead(at, to) ==
    /\ pc = at
    /\ fc_tmp' = frame_count
    /\ pc' = to
    /\ UNCHANGED <<status, cam, store, setupst, reqst, fb, resp, ops, video_ok,
                   captured, tasks>>

\* frame_count++: the write of the value read plus one
IncWrite(at, to) ==
    /\ pc = at
    /\ frame_count' = fc_tmp + 1
    /\ pc' = to
    /\ UNCHANGED <<camera_initialized, wifi_connected, i2s_initialized, cam, store,
                   setupst, reqst, fb, fc_tmp, resp, ops, video_ok, captured,
                   tasks>>

VJ_IncRead == IncRead("vj_inc", "vj_inc_write")
VJ_IncWrite == IncWrite("vj_inc_write", "done")

\* esp_camera_deinit()
VJ_Deinit ==
    /\ pc = "vj_deinit"
    /\ DriverDeinit
    /\ ops' = Append(ops, "deinit")
    /\ pc' = "vj_delay"
    /\ UNCHANGED <<status, fb_outstanding, store, setupst, reqst, fb, fc_tmp, resp,
                   video_ok, captured, tasks>>

\* delay(100)
VJ_Delay ==
    /\ pc = "vj_delay"
    /\ ops' = Append(ops, "delay")
    /\ pc' = "vj_reinit"
    /\ UNCHANGED <<status, cam, store, setupst, reqst, fb, fc_tmp, resp, video_ok,
                   captured, tasks>>

\* esp_err_t err = esp_camera_init(&config); if (err == ESP_OK) ... else ...
VJ_Reinit ==
    /\ pc = "vj_reinit"
    /\ \E e \in InitResults :
        /\ DriverInit(e)
        /\ pc' = IF e = "ESP_OK" THEN "vj_sensor" ELSE "vj_send503"
        /\ ops' = Append(ops, IF e = "ESP_OK" THEN "init_ok" ELSE "init_fail")
    /\ UNCHANGED <<status, fb_outstanding, store, setupst, reqst, fb, fc_tmp, resp,
                   video_ok, captured, tasks>>

\* A variant of the recovery that does not lower the resolution again.
VJ_Sensor_Skipped ==
    /\ pc = "vj_sensor"
    /\ ops' = Append(ops, "set_framesize")
    /\ pc' = "vj_retry_get"
    /\ UNCHANGED <<status, cam, store, setupst, reqst, fb, fc_tmp, resp, video_ok,
                   captured, tasks>>

\* sensor_t * s = esp_camera_sensor_get(); if (s) s->set_framesize(s, FRAMESIZE_VGA)
VJ_Sensor ==
    /\ pc = "vj_sensor"
    /\ ForceLowerResolution
    /\ pc' = "vj_retry_get"
    /\ UNCHANGED <<status, hw_inited, fb_outstanding, store, setupst, reqst, fb, fc_tmp,
                   resp, video_ok, captured, tasks>>

\* A variant of the retry that starts the recovery again when it fails.
VJ_RetryGet_Again == AcquireFrame("vj_retry_get", "vj_retry_send", "vj_deinit")

\* fb = esp_camera_fb_get(); if (fb) { ...; return; }
VJ_RetryGet == AcquireFrame("vj_retry_get", "vj_retry_send", "vj_send503")

VJ_RetrySend == SendFrame("vj_retry_send", "vj_retry_return", FALSE)

VJ_RetryReturn == ReturnFrame("vj_retry_return", "vj_retry_inc")

VJ_RetryIncRead == IncRead("vj_retry_inc", "vj_retry_inc_write")
\* A variant of the retry path that returns without counting the frame.
VJ_RetryIncWrite_Forgotten ==
    /\ pc = "vj_retry_inc_write"
    /\ pc' = "done"
    /\ UNCHANGED <<status, cam, store, setupst, reqst, fb, fc_tmp, resp, ops, video_ok,
                   captured, tasks>>

VJ_RetryIncWrite == IncWrite("vj_retry_inc_write", "done")

\* A variant of the end of the recovery that returns without sending the 503.
VJ_Send503_Silent ==
    /\ pc = "vj_send503"
    /\ pc' = "done"
    /\ UNCHANGED <<status, cam, store, setupst, reqst, fb, fc_tmp, resp, ops, video_ok,
                   captured, tasks>>

\* server.send(503, "text/plain", "Camera capture failed")
VJ_Send503 ==
    /\ pc = "vj_send503"
    /\ resp' = Append(resp, CaptureFailed)
    /\ pc' = "done"
    /\ UNCHANGED <<status, cam, store, setupst, reqst, fb, fc_tmp, ops, video_ok,
                   captured, tasks>>

handleVideoJpeg ==
    \/ VJ_Entry \/ VJ_Get \/ VJ_Send \/ VJ_Return \/ VJ_IncRead \/ VJ_IncWrite
    \/ VJ_Deinit \/ VJ_Delay \/ VJ_Reinit \/ VJ_Sensor \/ VJ_RetryGet
    \/ VJ_RetrySend \/ VJ_RetryReturn \/ VJ_RetryIncRead \/ VJ_RetryIncWrite
    \/ VJ_Send503

\* -------------------------------------------------------------- handleCapture

\* A variant of CP_Entry without the check of camera_initialized.
CP_Entry_Unchecked ==
    /\ pc = "handleCapture"
    /\ resp' = resp /\ pc' = "cp_get"
    /\ UNCHANGED <<status, cam, store, setupst, reqst, fb, fc_tmp, ops, video_ok,
                   captured, tasks>>

\* if (!camera_initialized) { server.send(503, ...); return; }
CP_Entry ==
    /\ pc = "handleCapture"
    /\ IF ~camera_initialized
       THEN resp' = Append(resp, NotInitialized) /\ pc' = "done"
       ELSE resp' = resp /\ pc' = "cp_get"
    /\ UNCHANGED <<status, cam, store, setupst, reqst, fb, fc_tmp, ops, video_ok,
                   captured, tasks>>

\* camera_fb_t * fb = esp_camera_fb_get(); if (fb) ... else ...
CP_Get == AcquireFrame("cp_get", "cp_open", "cp_send503")

\* A variant of CP_Open where the file is removed before it is opened for
\* writing: a failed open then leaves no photo.
CP_Open_RemoveFirst ==
    /\ pc = "cp_open"
    /\ \E ok \in (IF spiffs_mounted THEN BOOLEAN ELSE {FALSE}) :
        IF ok
        THEN photo' = [exists |-> TRUE, data |-> <<>>] /\ pc' = "cp_write"
        ELSE photo' = [exists |-> FALSE, data |-> <<>>] /\ pc' = "cp_save_failed"
    /\ UNCHANGED <<status, cam, spiffs_mounted, setupst, reqst, fb, fc_tmp, resp,
                   ops, video_ok, captured, tasks>>

\* File file = SPIFFS.open("/photo.jpg", FILE_WRITE); if (file) ... else ...
\* Opening for writing creates the file or truncates it; it can fail, and always
\* fails on a store that is not mounted; an open that fails leaves the store as
\* it was.
CP_Open ==
    /\ pc = "cp_open"
    /\ \E ok \in (IF spiffs_mounted THEN BOOLEAN ELSE {FALSE}) :
        IF ok
        THEN photo' = [exists |-> TRUE, data |-> <<>>] /\ pc' = "cp_write"
        ELSE photo' = photo /\ pc' = "cp_save_failed"
    /\ UNCHANGED <<status, cam, spiffs_mounted, setupst, reqst, fb, fc_tmp, resp,
                   ops, video_ok, captured, tasks>>

\* file.write(fb->buf, fb->len); file.close(): write returns the number of bytes
\* it wrote, from 0 to fb->len, and the code does not read it.
CP_Write ==
    /\ pc = "cp_write"
    /\ \E n \in 0..Len(fb.buf) :
        photo' = [exists |-> TRUE, data |-> SubSeq(fb.buf, 1, n)]
    /\ pc' = "cp_send200"
    /\ UNCHANGED <<status, cam, spiffs_mounted, setupst, reqst, fb, fc_tmp, resp,
                   ops, video_ok, captured, tasks>>

\* server.send(200, ...)
CP_Send200 ==
    /\ pc = "cp_send200"
    /\ resp' = Append(resp, Text(200, "text/plain; charset=utf-8", "photo taken"))
    /\ captured' = <<fb.buf>>
    /\ pc' = "cp_return"
    /\ UNCHANGED <<status, cam, store, setupst, reqst, fb, fc_tmp, ops, video_ok,
                   tasks>>

\* A variant of CP_SaveFailed that returns right after the 503, as the two
\* early returns above it do, and so never reaches esp_camera_fb_return.
CP_SaveFailed_Leak ==
    /\ pc = "cp_save_failed"
    /\ resp' = Append(resp, Text(503, "text/plain", "Failed to save photo"))
    /\ pc' = "done"
    /\ UNCHANGED <<status, cam, store, setupst, reqst, fb, fc_tmp, ops, video_ok,
                   captured, tasks>>

\* server.send(503, "text/plain", "Failed to save photo")
CP_SaveFailed ==
    /\ pc = "cp_save_failed"
    /\ resp' = Append(resp, Text(503, "text/plain", "Failed to save photo"))
    /\ pc' = "cp_return"
    /\ UNCHANGED <<status, cam, store, setupst, reqst, fb, fc_tmp, ops, video_ok,
                   captured, tasks>>

\* esp_camera_fb_return(fb)
CP_Return == ReturnFrame("cp_return", "done")

\* server.send(503, "text/plain", "Camera capture failed")
CP_Send503 ==
    /\ pc = "cp_send503"
    /\ resp' = Append(resp, CaptureFailed)
    /\ pc' = "done"
    /\ UNCHANGED <<status, cam, store, setupst, reqst, fb, fc_tmp, ops, video_ok,
                   captured, tasks>>

handleCapture ==
    \/ CP_Entry \/ CP_Get \/ CP_Open \/ CP_Write \/ CP_Send200 \/ CP_SaveFailed
    \/ CP_Return \/ CP_Send503

\* ------------------------------------------------------------ videoCaptureTask

\* A variant of the video task that takes a frame from the producer on its tick.
V_Tick_Capturing ==
    /\ vpc = "delay"
    /\ pc # "restarted"
    /\ hw_inited /\ fb_outstanding < config.fb_count
    /\ fb_outstanding' = fb_outstanding + 1
    /\ vpc' = "delay"
    /\ UNCHANGED <<status, hw_inited, hw_framesize, store, setupst, reqst, pc, fb,
                   fc_tmp, resp, ops, video_ok, captured, audioloc, audiost, readerst>>

\* videoCaptureTask: while (1) vTaskDelay(pdMS_TO_TICKS(1000))
V_Tick ==
    /\ vpc = "delay"
    /\ pc # "restarted"
    /\ vpc' = "delay"
    /\ UNCHANGED <<status, cam, store, setupst, reqst, pc, fb, fc_tmp, resp, ops,
                   video_ok, captured, audioloc, audiost, readerst>>

videoCaptureTask == V_Tick

\* ------------------------------------------------------------ audioCaptureTask

\* What the main context owns: no step of the audio task or of a reader changes it.
mainst == <<status, cam, store, setupst, reqst, pc, fb, fc_tmp, resp, ops, video_ok,
            captured, vpc>>

\* Values I2S.available() reports: nothing, less than the limit of one read,
\* the limit, and more than the whole buffer holds.
AvailChoices == {0, 1, AUDIO_BUFFER_SIZE * 2, AudioCapacityBytes + 1}

\* A variant of BytesToRead without the clamp: all that is available is read.
BytesToRead_NoClamp(avail) == avail

\* bytes_to_read = bytes_available > (AUDIO_BUFFER_SIZE * 2) ? (AUDIO_BUFFER_SIZE * 2)
\*                                                         : bytes_available
BytesToRead(avail) ==
    IF avail > AUDIO_BUFFER_SIZE * 2 THEN AUDIO_BUFFER_SIZE * 2 ELSE avail

\* A variant of A_Start without the test of i2s_initialized.
A_Start_Unchecked ==
    /\ apc = "start"
    /\ pc # "restarted"
    /\ apc' = "tick"
    /\ UNCHANGED <<mainst, bytes_available, bytes_to_read, bytes_read, wr_off, abc_tmp,
                   audiost, readerst>>

\* if (!i2s_initialized) { vTaskDelete(NULL); return; }
A_Start ==
    /\ apc = "start"
    /\ pc # "restarted"
    /\ apc' = IF ~i2s_initialized THEN "deleted" ELSE "tick"
    /\ UNCHANGED <<mainst, bytes_available, bytes_to_read, bytes_read, wr_off, abc_tmp,
                   audiost, readerst>>

\* The end of an iteration of while (1): vTaskDelay(pdMS_TO_TICKS(100)); the
\* iteration's locals are gone.
EndIteration ==
    /\ apc' = "tick"
    /\ bytes_available' = 0 /\ bytes_to_read' = 0 /\ bytes_read' = 0 /\ wr_off' = 0
    /\ abc_tmp' = 0

\* if (i2s_initialized) { bytes_available = I2S.available();
\*   if (bytes_available > 0) { bytes_to_read = ...
A_Available ==
    /\ apc = "tick"
    /\ pc # "restarted"
    /\ IF i2s_initialized
       THEN \E n \in (IF Events < MaxEvents THEN AvailChoices ELSE {0}) :
              IF n > 0
              THEN /\ bytes_available' = n
                   /\ bytes_to_read' = BytesToRead(n)
                   /\ apc' = "read"
                   /\ UNCHANGED <<bytes_read, wr_off, abc_tmp>>
              ELSE EndIteration
       ELSE EndIteration
    /\ UNCHANGED <<mainst, audiost, readerst>>

\* I2S.readBytes((char *)audio_buffer, bytes_to_read) is entered: it will copy
\* from 0 to bytes_to_read bytes, starting at offset 0 of audio_buffer.
A_ReadBegin ==
    /\ apc = "read"
    /\ pc # "restarted"
    /\ \E n \in 0..bytes_to_read : bytes_read' = n
    /\ wr_off' = 0
    /\ nfills' = nfills + 1
    /\ apc' = "copy"
    /\ UNCHANGED <<mainst, bytes_available, bytes_to_read, abc_tmp,
                   audio_bytes_captured, audio_data_ready, audio_buffer, fills_sum,
                   stable, readerst>>

\* I2S.readBytes copies one more byte of this fill cycle into audio_buffer.
A_Copy ==
    /\ apc = "copy"
    /\ pc # "restarted"
    /\ wr_off < bytes_read
    /\ audio_buffer' = [audio_buffer EXCEPT ![wr_off] = nfills]
    /\ wr_off' = wr_off + 1
    /\ stable' = IF wr_off' = bytes_read THEN stable \cup {audio_buffer'} ELSE stable
    /\ UNCHANGED <<mainst, apc, bytes_available, bytes_to_read, bytes_read, abc_tmp,
                   audio_bytes_captured, audio_data_ready, nfills, fills_sum, readerst>>

\* A variant of A_ReadEnd without the test of bytes_read: a read of no bytes is
\* accounted and flagged like any other.
A_ReadEnd_NoCheck ==
    /\ apc = "copy"
    /\ pc # "restarted"
    /\ wr_off = bytes_read
    /\ fills_sum' = fills_sum + bytes_read
    /\ apc' = "acc"
    /\ UNCHANGED <<mainst, bytes_available, bytes_to_read, bytes_read, wr_off, abc_tmp,
                   audio_bytes_captured, audio_data_ready, audio_buffer, nfills,
                   stable, readerst>>

\* I2S.readBytes returns bytes_read; if (bytes_read > 0) ...
A_ReadEnd ==
    /\ apc = "copy"
    /\ pc # "restarted"
    /\ wr_off = bytes_read
    /\ fills_sum' = fills_sum + bytes_read
    /\ IF bytes_read > 0
       THEN apc' = "acc" /\ UNCHANGED <<bytes_available, bytes_to_read, bytes_read,
                                        wr_off, abc_tmp>>
       ELSE EndIteration
    /\ UNCHANGED <<mainst, audio_bytes_captured, audio_data_ready, audio_buffer, nfills,
                   stable, readerst>>

\* audio_bytes_captured += bytes_read: the read
A_AccRead ==
    /\ apc = "acc"
    /\ pc # "restarted"
    /\ abc_tmp' = audio_bytes_captured
    /\ apc' = "acc_write"
    /\ UNCHANGED <<mainst, bytes_available, bytes_to_read, bytes_read, wr_off, audiost,
                   readerst>>

\* A variant of the write that stores the length of this read (= for +=).
A_AccWrite_Assign ==
    /\ apc = "acc_write"
    /\ pc # "restarted"
    /\ audio_bytes_captured' = bytes_read
    /\ apc' = "ready"
    /\ UNCHANGED <<mainst, bytes_available, bytes_to_read, bytes_read, wr_off, abc_tmp,
                   audio_data_ready, audio_buffer, nfills, fills_sum, stable, readerst>>

\* audio_bytes_captured += bytes_read: the write
A_AccWrite ==
    /\ apc = "acc_write"
    /\ pc # "restarted"
    /\ audio_bytes_captured' = abc_tmp + bytes_read
    /\ apc' = "ready"
    /\ UNCHANGED <<mainst, bytes_available, bytes_to_read, bytes_read, wr_off, abc_tmp,
                   audio_data_ready, audio_buffer, nfills, fills_sum, stable, readerst>>

\* audio_data_ready = true; the iteration ends
A_SetReady ==
    /\ apc = "ready"
    /\ pc # "restarted"
    /\ audio_data_ready' = TRUE
    /\ EndIteration
    /\ UNCHANGED <<mainst, audio_bytes_captured, audio_buffer, nfills, fills_sum,
                   stable, readerst>>

audioCaptureTask ==
    \/ A_Start \/ A_Available \/ A_ReadBegin \/ A_Copy \/ A_ReadEnd
    \/ A_AccRead \/ A_AccWrite \/ A_SetReady

\* ------------------------------------------------------------------ snapshot
\* main.cpp has no reader of audio_buffer (onAudioCapture sends a placeholder) and
\* no lock, flag protocol or second buffer a reader could use. A reader is
\* modelled as the specification describes AudioRingBuffer.snapshot(): a copy of
\* the shared storage made in a context other than the audio task's, with the
\* only synchronization the code offers, which is none.

\* snapshot() starts copying audio_buffer.
R_Begin ==
    /\ rpc \in {"idle", "done"}
    /\ pc \notin {"restarted"}
    /\ server.begun
    /\ Events < MaxEvents
    /\ nsnaps' = nsnaps + 1
    /\ rd_off' = 0
    /\ snap' = <<>>
    /\ rpc' = "copy"
    /\ UNCHANGED <<mainst, audioloc, audiost>>

\* snapshot() copies one more byte.
R_Copy ==
    /\ rpc = "copy"
    /\ pc # "restarted"
    /\ rd_off < AudioCapacityBytes
    /\ snap' = Append(snap, audio_buffer[rd_off])
    /\ rd_off' = rd_off + 1
    /\ UNCHANGED <<mainst, audioloc, audiost, rpc, nsnaps>>

\* snapshot() returns its copy.
R_End ==
    /\ rpc = "copy"
    /\ pc # "restarted"
    /\ rd_off = AudioCapacityBytes
    /\ rpc' = "done"
    /\ UNCHANGED <<mainst, audioloc, audiost, rd_off, snap, nsnaps>>

snapshot == R_Begin \/ R_Copy \/ R_End

\* ---------------------------------------------------------------------- Next

\* The main context: setup(), then loop().
MainContext ==
    \/ Setup \/ HandleClient \/ Return
    \/ handleVideoJpeg \/ handleCapture
    \/ handleRoot \/ handleSave \/ onAudioCapture \/ handleStatus
    \/ handleNotFound \/ handleSavedPhoto \/ handleRestart \/ EspRestart

\* The firmware: the main context and the two tasks, in every interleaving.
Next == MainContext \/ videoCaptureTask \/ audioCaptureTask

Spec == Init /\ [][Next]_vars

\* The main context alone (the tasks are created and not scheduled).
SpecMain == Init /\ [][MainContext]_vars

\* The steps of a handler that has been called: each is a statement of the
\* handler, or a call of the producer, the store or the server that returns.
HandlerSteps ==
    \/ handleVideoJpeg \/ handleCapture
    \/ handleRoot \/ handleSave \/ onAudioCapture \/ handleStatus
    \/ handleNotFound \/ handleSavedPhoto \/ handleRestart \/ EspRestart

\* The main context alone, where a handler that was called keeps running: the
\* loop task is not starved and every call the handler makes returns.
SpecMainLive == Init /\ [][MainContext]_vars /\ WF_vars(HandlerSteps)

\* The state setup() leaves when the link, the store and the producer came up;
\* the sampler's initialization succeeded or failed.
InitAfterSetup ==
    /\ camera_initialized = TRUE /\ wifi_connected = TRUE /\ i2s_initialized \in BOOLEAN
    /\ frame_count = 0 /\ audio_bytes_captured = 0 /\ audio_data_ready = FALSE
    /\ audio_buffer = [i \in 0..(AudioCapacityBytes - 1) |-> 0]
    /\ config = [frame_size |-> "FRAMESIZE_UXGA", fb_count |-> FB_COUNT]
    /\ server = [handlers |-> RegisteredRoutes, notFound |-> "handleNotFound",
                 begun |-> TRUE]
    /\ hw_inited = TRUE /\ hw_framesize = "FRAMESIZE_VGA" /\ fb_outstanding = 0
    /\ spiffs_mounted = TRUE /\ photo = [exists |-> FALSE, data |-> <<>>]
    /\ pc = "loop" /\ attempts = 0 /\ fb = NoFrame /\ fc_tmp = 0
    /\ req = NoRequest /\ handler = "none" /\ resp = <<>>
    /\ vpc = "delay"
    /\ apc = "start" /\ bytes_available = 0 /\ bytes_to_read = 0 /\ bytes_read = 0
    /\ wr_off = 0 /\ abc_tmp = 0
    /\ rpc = "idle" /\ rd_off = 0 /\ snap = <<>>
    /\ ops = <<>> /\ nreq = 0 /\ fc_at_start = 0 /\ video_ok = 0 /\ captured = <<>>
    /\ photo_at_start = photo /\ prev = <<>>
    /\ nfills = 0 /\ fills_sum = 0 /\ stable = {audio_buffer} /\ nsnaps = 0

\* The two tasks and a reader of the audio buffer, with no request served.
NextAudio == videoCaptureTask \/ audioCaptureTask \/ snapshot

SpecAudio == InitAfterSetup /\ [][NextAudio]_vars

\* ==================================================================== claims

\* How often x occurs in the sequence q.
Count(q, x) == Cardinality({i \in 1..Len(q) : q[i] = x})

IsPrefix(p, q) == Len(p) <= Len(q) /\ SubSeq(q, 1, Len(p)) = p

\* Positions of the main context where no function that acquires frames runs.
BetweenRequests == {"loop", "done", "restarted"}

\* The producer calls of one /video.jpg request, complete, by outcome.
VJ_FirstSuccess == <<"get_ok", "return">>
VJ_ReinitFailed == <<"get_null", "deinit", "delay", "init_fail">>
VJ_RetrySuccess == <<"get_null", "deinit", "delay", "init_ok", "set_framesize",
                     "get_ok", "return">>
VJ_RetryFailed == <<"get_null", "deinit", "delay", "init_ok", "set_framesize",
                    "get_null">>

\* C1: in every reachable state at most one frame handle is outstanding, it is
\* the one the running function holds, every handle obtained is returned once,
\* and none is outstanding when setup or a handler has returned (startup test
\* capture, recovery path and storage-failure path included).
C1_NoHandleLeak ==
    /\ fb_outstanding \in {0, 1}
    /\ fb_outstanding = (IF fb # NoFrame THEN 1 ELSE 0)
    /\ Count(ops, "get_ok") = Count(ops, "return") + fb_outstanding
    /\ pc \in BetweenRequests => fb_outstanding = 0 /\ fb = NoFrame

\* C1's case: a /capture that hit the storage failure has returned its handle.
C1_Witness ==
    /\ pc = "done" /\ handler = "handleCapture"
    /\ resp = <<Text(503, "text/plain", "Failed to save photo")>>
    /\ ops = <<"get_ok", "return">>
    /\ fb_outstanding = 0

\* C2: frame_count changes only by the ++ of a /video.jpg request that sent 200
\* (first acquisition or retry), by exactly 1 per such request; a request
\* answered otherwise, every other handler and both tasks leave it unchanged; so
\* between requests it equals the number of /video.jpg requests answered 200.
C2_FrameCount ==
    [][ /\ frame_count' # frame_count =>
            /\ pc \in {"vj_inc_write", "vj_retry_inc_write"} /\ pc' = "done"
            /\ frame_count' = frame_count + 1
        /\ (pc' = "done" /\ pc # "done") =>
            /\ Len(resp') = 1
            /\ frame_count' = fc_at_start' +
                 (IF handler' = "handleVideoJpeg" /\ resp'[1].code = 200 THEN 1 ELSE 0)
        /\ pc' \in {"loop", "done"} => frame_count' = video_ok'
      ]_vars

\* C2's case: the second of two /video.jpg requests answered 200, this one on the
\* retry after a recovery, while the audio task was running.
C2_Witness ==
    /\ pc = "done" /\ handler = "handleVideoJpeg"
    /\ ops = VJ_RetrySuccess
    /\ resp[1].code = 200
    /\ frame_count = 2 /\ fc_at_start = 1
    /\ nfills > 0

\* C3: a /video.jpg request makes its producer calls in one of four orders:
\* acquire; or acquire (failed), deinitialize, pause, re-initialize (failed); or
\* acquire (failed), deinitialize, pause, re-initialize, lower the resolution,
\* acquire again (either result). So at most one deinitialize, one
\* re-initialize and two acquisitions per request, and a failed
\* re-initialization or retry ends in 503 with no further call.
C3_SingleRecovery ==
    handler = "handleVideoJpeg" =>
        /\ \E t \in {VJ_FirstSuccess, VJ_ReinitFailed, VJ_RetrySuccess, VJ_RetryFailed} :
              IsPrefix(ops, t)
        /\ pc = "done" /\ camera_initialized =>
              \/ ops \in {VJ_FirstSuccess, VJ_RetrySuccess} /\ resp[1].code = 200
              \/ ops \in {VJ_ReinitFailed, VJ_RetryFailed} /\ resp = <<CaptureFailed>>

\* C3's case: the recovery ran, the retry failed, and the request ended in 503.
C3_Witness ==
    /\ pc = "done" /\ handler = "handleVideoJpeg"
    /\ ops = VJ_RetryFailed
    /\ resp = <<CaptureFailed>>

\* What each handler but the two that use the producer answers.
PlainCode(h) ==
    CASE h \in {"handleRoot", "handleSave", "onAudioCapture", "handleStatus",
                "handleRestart"} -> 200
      [] h \in {"handleNotFound", "handleSavedPhoto"} -> 404

\* C4: with the producer-initialized flag false after setup, the driver is not
\* initialized and stays so; /video.jpg and /capture are answered 503 "Camera
\* not initialized" with no producer call and frame_count unchanged; every other
\* handler still answers (no photo exists, so /saved_photo answers 404).
C4_FailFast ==
    (~camera_initialized /\ pc \notin {"setup", "setupWiFi", "setupWiFi_check",
                                       "setupCamera", "setupCamera_init"}) =>
        /\ ~hw_inited /\ fb = NoFrame /\ frame_count = 0
        /\ Count(ops, "init_fail") = Len(ops)
        /\ handler # "none" => ops = <<>>
        /\ (pc = "done" /\ handler \in {"handleVideoJpeg", "handleCapture"}) =>
               resp = <<NotInitialized>> /\ frame_count = fc_at_start
        /\ (pc = "done" /\ handler \notin {"handleVideoJpeg", "handleCapture"}) =>
               Len(resp) = 1 /\ resp[1].code = PlainCode(handler)

\* C4's case: after a failed startup initialization, a second request, a
\* /capture, has been refused.
C4_Witness ==
    /\ ~camera_initialized /\ pc = "done" /\ handler = "handleCapture"
    /\ nreq >= 2
    /\ resp = <<NotInitialized>>

\* The state right after the retry acquisition of a recovery that re-initialized.
AfterRetryAcquire ==
    /\ handler = "handleVideoJpeg"
    /\ Len(ops) = Len(VJ_RetryFailed)
    /\ ops[4] = "init_ok"

\* C5 as stated: after a failed acquire and a successful recovery, the next
\* acquire succeeds and returns a frame at the lower-resolution profile.
C5_Original ==
    AfterRetryAcquire => ops[6] = "get_ok" /\ fb.res = "FRAMESIZE_VGA"

\* C5 amended: after a failed acquire and a successful recovery, the retry is
\* made once; if it returns a frame, the frame is at the lower-resolution
\* profile and is sent; if it fails, the request goes to its 503.
C5_RetryAtLowerResolution ==
    AfterRetryAcquire =>
        IF ops[6] = "get_ok"
        THEN /\ fb # NoFrame /\ fb.res = "FRAMESIZE_VGA"
             /\ pc = "vj_retry_send" \/ (pc = "vj_retry_return" /\ resp[1].code = 200)
        ELSE /\ fb = NoFrame
             /\ pc = "vj_send503" \/ (pc = "done" /\ resp = <<CaptureFailed>>)

\* C5's case: the retry after a successful recovery returned a frame.
C5_Witness ==
    /\ AfterRetryAcquire /\ ops[6] = "get_ok"
    /\ pc = "vj_retry_send" /\ fb # NoFrame

\* What a finished snapshot returned, as contents of audio_buffer.
SnapContents == [i \in 0..(AudioCapacityBytes - 1) |-> snap[i + 1]]

C7_FillWithinCapacity ==
    /\ DOMAIN audio_buffer = 0..(AudioCapacityBytes - 1)
    /\ bytes_to_read <= bytes_available
    /\ bytes_to_read <= AUDIO_BUFFER_SIZE * 2
    /\ bytes_to_read <= AudioCapacityBytes
    /\ bytes_read <= bytes_to_read
    /\ wr_off <= bytes_read
    /\ apc = "copy" =>
          {i \in DOMAIN audio_buffer : audio_buffer[i] = nfills} = 0..(wr_off - 1)
    /\ fills_sum <= nfills * AudioCapacityBytes
    /\ audio_bytes_captured <= fills_sum
    /\ Len(snap) <= AudioCapacityBytes

\* C7's case: the sampler reported more than the whole buffer holds, and the
\* fill cycle has written all the bytes of its clamped read, from offset 0.
C7_Witness ==
    /\ apc = "copy"
    /\ bytes_available > AudioCapacityBytes
    /\ bytes_read = AUDIO_BUFFER_SIZE * 2
    /\ wr_off = bytes_read
    /\ \A i \in 0..(wr_off - 1) : audio_buffer[i] = nfills

\* C8 as stated: /saved_photo answers 404 "Photo not found" as long as no
\* /capture was answered 200, and afterwards 200 with exactly the bytes of the
\* frame acquired by the last /capture answered 200.
C8_SavedPhotoIsCapture ==
    (pc = "done" /\ handler = "handleSavedPhoto") =>
        IF captured = <<>>
        THEN resp = <<Text(404, "text/plain", "Photo not found")>>
        ELSE /\ Len(resp) = 1
             /\ resp[1].code = 200
             /\ resp[1].data = captured[1]

\* C9 as stated: /capture is answered once, with 200 or 503, and with 200 only
\* when the store holds the acquired frame completely.
C9_200OnlyWhenPersisted ==
    (pc = "done" /\ handler = "handleCapture") =>
        /\ Len(resp) = 1
        /\ resp[1].code \in {200, 503}
        /\ resp[1].code = 200 =>
              /\ photo.exists
              /\ photo.data = captured[1]

\* The handler registered for each path.
C10_HandlerOf(path) ==
    CASE path = "/" -> "handleRoot"
      [] path = "/video.jpg" -> "handleVideoJpeg"
      [] path = "/capture" -> "handleCapture"
      [] path = "/save" -> "handleSave"
      [] path = "/saved_photo" -> "handleSavedPhoto"
      [] path = "/audio" -> "onAudioCapture"
      [] path = "/status" -> "handleStatus"
      [] path = "/restart" -> "handleRestart"

\* C10: the dispatcher calls exactly one handler per request: for a GET of a
\* registered path the handler registered for that path, and for a path that is
\* not registered the fallback, whatever the method and the query; the fallback
\* sends the 404 as the only response and changes nothing else.
C10_Dispatch ==
    [][ /\ (pc = "loop" /\ pc' # "loop") =>
            /\ req' \in Requests
            /\ handler' = pc'
            /\ (req'.method = "GET" /\ req'.path \in RegisteredPaths) =>
                   handler' = C10_HandlerOf(req'.path)
            /\ req'.path \notin RegisteredPaths => handler' = "handleNotFound"
        /\ (pc = "handleNotFound" /\ pc' # pc) =>
            /\ pc' = "done"
            /\ resp = <<>>
            /\ resp' = <<Text(404, "text/plain; charset=utf-8", "404 - page not found")>>
            /\ UNCHANGED <<status, cam, store, setupst, reqst, fb, fc_tmp, ops,
                           video_ok, captured>>
      ]_vars

\* C10's case: a POST of an unregistered path with a query, the second request
\* served, was answered by the fallback.
C10_Witness ==
    /\ pc = "done" /\ handler = "handleNotFound"
    /\ req = [method |-> "POST", path |-> "/favicon.ico", query |-> "t=1"]
    /\ resp[1].code = 404
    /\ nreq >= 2

\* A handler has been called and has neither returned nor restarted the device.
InHandler == handler # "none" /\ pc \notin {"done", "restarted"}

\* C11: a request never has more than one response; when its handler has
\* returned (or, for /restart, has restarted the device) it has exactly one; and
\* a handler that was called always gets there, on every path, as long as the
\* calls it makes return.
C11_OneResponse ==
    /\ [](Len(resp) <= 1)
    /\ []((handler # "none" /\ pc \in {"done", "restarted"}) => Len(resp) = 1)
    /\ (InHandler ~> (pc \in {"done", "restarted"}))

\* C11's case: a /video.jpg whose re-initialization failed has returned, with
\* its single 503.
C11_Witness ==
    /\ pc = "done" /\ handler = "handleVideoJpeg"
    /\ ops = VJ_ReinitFailed
    /\ Len(resp) = 1 /\ resp[1].code = 503

\* C12: with the main context and both tasks interleaved and every increment
\* split into its read and its write, no update of a counter is lost: the value
\* an increment read is still the counter's value when it writes; whenever no
\* /video.jpg increment is under way frame_count is the number of /video.jpg
\* requests answered 200, and whenever no fill cycle is under way
\* audio_bytes_captured is the sum of the bytes read by all fill cycles.
C12_NoLostUpdate ==
    /\ pc \in {"vj_inc_write", "vj_retry_inc_write"} => fc_tmp = frame_count
    /\ apc = "acc_write" => abc_tmp = audio_bytes_captured
    /\ pc \in {"loop", "done", "restarted"} => frame_count = video_ok
    /\ apc \in {"start", "tick", "deleted"} => audio_bytes_captured = fills_sum

\* C12's case: a /video.jpg was counted while the second fill cycle was between
\* the read and the write of its own increment.
C12_Witness ==
    /\ pc = "done" /\ handler = "handleVideoJpeg" /\ frame_count = 1
    /\ apc = "acc_write" /\ nfills = 2
    /\ audio_bytes_captured > 0 /\ bytes_read > 0

\* The handlers that acquire a frame.
FrameHandlers == {"handleVideoJpeg", "handleCapture"}

\* C13 as stated: a request of a handler that acquires frames is answered 503
\* "Camera capture failed" only after one recovery sequence was attempted for
\* it: one deinitialization and one re-initialization of the producer.
C13_RecoveryAttempted ==
    (pc = "done" /\ handler \in FrameHandlers /\ resp = <<CaptureFailed>>) =>
        /\ Count(ops, "deinit") = 1
        /\ Count(ops, "init_ok") + Count(ops, "init_fail") = 1

\* The positions right after a successful esp_camera_init, before the
\* resolution is forced down.
AfterInit == {"setupCamera_sensor", "vj_sensor"}

\* C14: right after every successful initialization of the producer (in
\* setupCamera and in the recovery) the next producer call lowers the
\* resolution to VGA, with no frame acquired in between; at every other
\* position an initialized producer is at VGA; and every frame a function holds
\* was captured at VGA, never at the UXGA of the config.
C14_LowerResolution ==
    /\ config.frame_size \in {"FRAMESIZE_96X96", "FRAMESIZE_UXGA"}
    /\ pc \in AfterInit =>
          /\ hw_inited /\ hw_framesize = config.frame_size
          /\ ops[Len(ops)] = "init_ok"
          /\ fb = NoFrame /\ fb_outstanding = 0
    /\ (hw_inited /\ pc \notin AfterInit) => hw_framesize = "FRAMESIZE_VGA"
    /\ \A i \in 1..(Len(ops) - 1) : ops[i] = "init_ok" => ops[i + 1] = "set_framesize"
    /\ fb # NoFrame => fb.res = "FRAMESIZE_VGA" /\ fb.res # config.frame_size

\* C14's case: setupCamera's test capture holds a frame, taken at VGA right
\* after the initialization with the UXGA config.
C14_Witness ==
    /\ pc = "setupCamera_return"
    /\ ops = <<"init_ok", "set_framesize", "get_ok">>
    /\ config.frame_size = "FRAMESIZE_UXGA"
    /\ fb # NoFrame /\ fb.res = "FRAMESIZE_VGA"

\* What a fill cycle may change.
fillst == <<audio_buffer, audio_data_ready, audio_bytes_captured>>

\* C15: a tick on which nothing is available (a step from the tick to the next
\* tick) changes neither audio_buffer nor the ready flag nor
\* audio_bytes_captured; the buffer is written only by a read that found bytes
\* available; a read that returned no byte ends the cycle with the flag and the
\* counter as they were; and a cycle that read n > 0 bytes adds exactly n to
\* audio_bytes_captured and ends with the ready flag set.
C15_FillEffect ==
    [][ /\ (apc = "tick" /\ apc' \in {"tick", "read"}) => UNCHANGED fillst
        /\ (apc = "tick" /\ apc' = "read") => bytes_available' > 0
        /\ audio_buffer' # audio_buffer => (apc = "copy" /\ bytes_available > 0)
        /\ (apc = "copy" /\ apc' = "tick") => (bytes_read = 0 /\ UNCHANGED fillst)
        /\ audio_bytes_captured' # audio_bytes_captured =>
              /\ apc = "acc_write" /\ bytes_read > 0
              /\ audio_bytes_captured' = audio_bytes_captured + bytes_read
        /\ audio_data_ready' # audio_data_ready => (apc = "ready" /\ bytes_read > 0)
        /\ (apc = "ready" /\ apc' = "tick") =>
              /\ audio_data_ready' = TRUE
              /\ bytes_read > 0
              /\ audio_bytes_captured' = abc_tmp + bytes_read
              /\ audio_bytes_captured' = fills_sum'
      ]_vars

\* C15's case: after one cycle that read AUDIO_BUFFER_SIZE * 2 bytes and a
\* second that read none, the counter is that number and the flag is set.
C15_Witness ==
    /\ apc = "tick" /\ nfills = 2
    /\ audio_data_ready
    /\ audio_bytes_captured = AUDIO_BUFFER_SIZE * 2
    /\ \A i \in 0..(AUDIO_BUFFER_SIZE * 2 - 1) : audio_buffer[i] = 1

\* C16: with i2s_initialized false the audio task is at its start or deleted,
\* and once deleted stays deleted: it has run no fill cycle, audio_buffer is as
\* at startup, audio_bytes_captured is 0 and the ready flag is false. With
\* i2s_initialized true the task is never deleted, its first step enters the
\* loop, and every step it takes from a tick asks the sampler what is
\* available: it starts a read or, with nothing available, ends the tick.
C16_AudioLoopExit ==
    /\ [](~i2s_initialized =>
            /\ apc \in {"start", "deleted"}
            /\ nfills = 0 /\ fills_sum = 0
            /\ audio_buffer = [i \in 0..(AudioCapacityBytes - 1) |-> 0]
            /\ audio_bytes_captured = 0
            /\ audio_data_ready = FALSE)
    /\ [](i2s_initialized => apc # "deleted")
    /\ [][ /\ apc = "deleted" => apc' = "deleted"
           /\ i2s_initialized' = i2s_initialized
           /\ (apc = "start" /\ apc' # apc) =>
                 apc' = (IF i2s_initialized THEN "tick" ELSE "deleted")
           /\ (apc = "tick" /\ apc' # apc) =>
                 (i2s_initialized /\ apc' = "read" /\ bytes_available' > 0)
         ]_vars

\* C16's case: the sampler did not come up, the audio task has deleted itself,
\* and a snapshot taken afterwards found the buffer as it was at startup.
C16_Witness ==
    /\ ~i2s_initialized /\ apc = "deleted"
    /\ rpc = "done" /\ Len(snap) = AudioCapacityBytes
    /\ \A i \in 1..Len(snap) : snap[i] = 0

\* The handlers that only read.
ReadHandlers == {"handleStatus", "handleSavedPhoto"}

\* The request just served and the one served before it went to the same
\* read-only handler.
SecondRead == pc = "done" /\ handler \in ReadHandlers /\ prev # <<>> /\ prev[1] = handler

\* C17 as stated: the second of two consecutive /status requests, and of two
\* consecutive /saved_photo requests, gets the response the first one got.
C17_SameResponse ==
    SecondRead => resp = prev[2]

\* A response without what /status reads from the link.
WithoutLink(r) ==
    IF r.json = <<>> THEN r
    ELSE [r EXCEPT !.json = <<[r.json[1] EXCEPT !.ip_address = "", !.signal_strength = 0]>>]

\* C17 amended: a step of handleStatus or handleSavedPhoto changes nothing but
\* the response it sends: the counters, the flags, the producer, the frame pool
\* and the store stay as they are. The second of two consecutive /saved_photo
\* requests gets the response of the first; the second of two consecutive
\* /status requests gets the response of the first except for ip_address and
\* signal_strength, which are read from the link at each call.
C17_IdempotentReads ==
    /\ [][(pc \in ReadHandlers /\ pc' # pc) =>
             /\ pc' = "done"
             /\ UNCHANGED <<status, cam, store, setupst, fb, fc_tmp, video_ok, captured>>
         ]_vars
    /\ [](SecondRead =>
             /\ Len(resp) = 1 /\ Len(prev[2]) = 1
             /\ WithoutLink(resp[1]) = WithoutLink(prev[2][1])
             /\ handler = "handleSavedPhoto" => resp = prev[2])

\* C17's case: two consecutive /status requests were served, and the link went
\* down or came up in between.
C17_Witness ==
    /\ SecondRead /\ handler = "handleStatus"
    /\ resp # prev[2]
    /\ WithoutLink(resp[1]) = WithoutLink(prev[2][1])

\* C18 as stated: whenever setup or a handler has returned, camera_initialized,
\* the flag that gates /video.jpg and /capture and that /status reports, is
\* true exactly when the producer's driver is initialized.
C18_FlagTracksProducer ==
    pc \in BetweenRequests => (camera_initialized <=> hw_inited)

\* What a producer operation changes: the driver's state and the handle the
\* running function holds; each call is also appended to ops.
producerst == <<cam, fb>>

\* What the two tasks own.
taskst == <<vpc, audioloc, audiost>>

\* C19: every step that changes the producer's state or the held handle, or
\* records a producer call, is a step of the main context (its position
\* changes) and leaves both tasks where they are; every step of a task, once
\* setup has created it, leaves the producer and the main context as they are;
\* and the driver is deinitialized only by handleVideoJpeg's recovery, with no
\* handle outstanding.
C19_ProducerInMainContext ==
    [][ /\ (producerst' # producerst \/ Len(ops') > Len(ops)) =>
              (pc' # pc /\ UNCHANGED taskst)
        /\ (taskst' # taskst /\ pc \notin {"create_video", "create_audio"}) =>
              UNCHANGED <<producerst, ops, pc>>
        /\ (hw_inited /\ ~hw_inited') =>
              (pc = "vj_deinit" /\ fb_outstanding = 0 /\ fb = NoFrame)
      ]_vars

\* C19's case: the recovery of a /video.jpg has deinitialized the producer
\* while the audio task was in the middle of a fill cycle.
C19_Witness ==
    /\ pc = "vj_delay" /\ ~hw_inited /\ fb_outstanding = 0
    /\ apc = "copy" /\ wr_off > 0 /\ wr_off < bytes_read

\* C20: when a /capture has been answered 503, whichever of its three failures
\* it was, the store's /photo.jpg is what it was when the request was
\* dispatched, so /saved_photo answers now what it would have answered then.
C20_FailedCaptureKeepsPhoto ==
    (pc = "done" /\ handler = "handleCapture" /\ Len(resp) > 0 /\ resp[1].code = 503) =>
        /\ resp[1].text \in {"Camera not initialized", "Camera capture failed",
                             "Failed to save photo"}
        /\ photo = photo_at_start
        /\ SavedPhotoReply(photo) = SavedPhotoReply(photo_at_start)

\* C20's case: a /capture failed to open the file for writing while the store
\* held the photo of an earlier /capture, and the photo is still there.
C20_Witness ==
    /\ pc = "done" /\ handler = "handleCapture"
    /\ resp = <<Text(503, "text/plain", "Failed to save photo")>>
    /\ captured # <<>> /\ photo.exists /\ photo.data = captured[1]
    /\ SavedPhotoReply(photo).code = 200
====
